---- MODULE Spec2Model ----
(***************************************************************************)
(* Veriflow: a model of veriflow/verilog_bits.py (class VerilogBits).      *)
(*                                                                         *)
(* A VerilogBits wraps one bitstring.BitArray, `_data`.  The model keeps   *)
(* `_data` as a sequence of bits in storage order: element 1 of the        *)
(* sequence is Python position 0, the leftmost character of `.bin`, the    *)
(* most significant bit.  Hardware bit k (0 = LSB) of a vector of length L *)
(* is therefore element L - k of the sequence.                             *)
(*                                                                         *)
(* The state is one receiver object `v` that is read with v[key] and       *)
(* written with v[key] = value, together with a record of the last call:   *)
(* what it was (op), what `_data` held before it (pre) and how it ended    *)
(* (res).                                                                  *)
(*                                                                         *)
(* The calls that take their arguments and return a new vector or a value  *)
(* (the constructor, concat, replicate, ==) are applied to arguments drawn *)
(* in the initial state (fcall) and leave their outcome in ret.  Where the  *)
(* identity of the objects matters, the BitArray objects are kept by       *)
(* address (arrays) and each VerilogBits object holds the address of its   *)
(* _data (refs).                                                           *)
(*                                                                         *)
(* veriflow/task_runner.py (class SimulationTask) is modelled by task: the *)
(* attributes the caller sets, and the position of the run_full() or       *)
(* run_sim_only() call in progress, one step for each stage.               *)
(* veriflow/verilogger.py (class Verilogger) is modelled by logger, and    *)
(* the threads that call it by threads, one step for each acquisition of   *)
(* the lock and each statement under it.                                   *)
(***************************************************************************)
EXTENDS Integers, Sequences, FiniteSets, TLC

VARIABLES
    bits,       \* v._data of the receiver, storage order (MSB first)
    pre,        \* v._data before the last call
    op,         \* the last call: its name, key and value
    res,        \* how the last call ended: returned / raised, and what
    fcall,      \* a call of a constructor, class method, method or operator
    ret,        \* the outcome of fcall
    arrays,     \* the bitstring.BitArray objects, by address
    touched,    \* the addresses of the BitArrays the last call changed
    refs,       \* the VerilogBits objects: the address of each one's _data
    task,       \* a SimulationTask: its attributes and the run in progress
    logger,     \* the Verilogger instance: counters, output files, lock
    threads     \* the threads calling the logger: each one's calls and position

\* the receiver of the reads and writes, and the last of them
receiverVars == <<bits, pre, op, res>>
\* the objects by address
objectVars == <<arrays, touched, refs>>

\* the task runner, the logger and its callers
serviceVars == <<task, logger, threads>>

vars == <<bits, pre, op, res, fcall, ret, arrays, touched, refs, task, logger, threads>>

----------------------------------------------------------------------------
(* Bounds of the model.                                                    *)

\* longest receiver a set is applied to, and widest value a set assigns
MaxLen == 3
\* widest vector the constructor is asked for from an integer, and longest
\* binary literal it is given
MaxWidth == 4

----------------------------------------------------------------------------
(* Bit sequences and integers.                                             *)

Bit == {0, 1}

BitSeqs(n) == [1..n -> Bit]

BitSeqsUpTo(n) == UNION {BitSeqs(k) : k \in 0..n}

RECURSIVE Pow2(_)
Pow2(n) == IF n <= 0 THEN 1 ELSE 2 * Pow2(n - 1)

\* the n-bit unsigned encoding of u, most significant bit first
UintBits(u, n) == [k \in 1..n |-> (u \div Pow2(n - k)) % 2]

RECURSIVE BitsUint(_)
BitsUint(b) ==
    IF Len(b) = 0 THEN 0
    ELSE 2 * BitsUint(SubSeq(b, 1, Len(b) - 1)) + b[Len(b)]

Min(a, b) == IF a < b THEN a ELSE b
Max(a, b) == IF a > b THEN a ELSE b

\* The hardware bit k (weight 2^k) of the vector stored as b.
HwBit(b, k) == b[Len(b) - k]

----------------------------------------------------------------------------
(* Optional values: <<>> is Python's None, <<x>> is the value x.           *)

None == <<>>
Some(x) == <<x>>
IsNone(o) == Len(o) = 0
Val(o) == o[1]

----------------------------------------------------------------------------
(* Outcomes of a call: it returns (kind "ok", with the vector it returns   *)
(* or stores in data) or it raises (kind "raise", with the exception).     *)

Ok(d) == [kind |-> "ok", err |-> "", msg |-> "", data |-> d]
Raise(e, m) == [kind |-> "raise", err |-> e, msg |-> m, data |-> <<>>]

----------------------------------------------------------------------------
(* Python slicing of a sequence: data[start:stop] with step 1.  Negative   *)
(* indices count from the end, and both ends are clipped to [0, len].      *)

PyIndex(i, n) == IF i < 0 THEN Max(i + n, 0) ELSE Min(i, n)

PySlice(data, start, stop) ==
    LET s == PyIndex(start, Len(data))
        e == PyIndex(stop, Len(data))
    IN  IF s < e THEN SubSeq(data, s + 1, e) ELSE <<>>

\* data[start:], the slice with no stop
PySliceFrom(data, start) == PySlice(data, start, Len(data))

\* data[start:stop] = value on a BitArray: the slice is replaced by the
\* value's bits, whatever their number (start <= stop, both in [0, len])
BitArraySetSlice(data, start, stop, value) ==
    SubSeq(data, 1, start) \o value \o SubSeq(data, stop + 1, Len(data))

----------------------------------------------------------------------------
(* The values a caller passes to the constructor and to a set.             *)
(*   VerilogBits  another vector, with its _data                           *)
(*   int          a Python integer n                                       *)
(*   str          a string: a prefix ("0b", "0x", or anything else) and    *)
(*                the digits after it, each a number 0..15                 *)
(*   NoneType     None, the constructor's default                          *)

VbValue(d) ==
    [type |-> "VerilogBits", data |-> d, n |-> 0, prefix |-> "", digits |-> <<>>]
IntValue(i) ==
    [type |-> "int", data |-> <<>>, n |-> i, prefix |-> "", digits |-> <<>>]
StrValue(p, ds) ==
    [type |-> "str", data |-> <<>>, n |-> 0, prefix |-> p, digits |-> ds]
NoneValue ==
    [type |-> "NoneType", data |-> <<>>, n |-> 0, prefix |-> "", digits |-> <<>>]

\* four bits for each hexadecimal digit, in order
RECURSIVE HexBits(_)
HexBits(ds) ==
    IF Len(ds) = 0 THEN <<>> ELSE UintBits(ds[1], 4) \o HexBits(Tail(ds))

\* bitstring.BitArray(value) for a string or None ("auto" initialiser):
\* None is the empty array, "0b..." one bit per binary digit, "0x..." four
\* bits per hexadecimal digit; anything else is a bitstring.CreationError.
BitArrayAuto(value) ==
    IF value.type = "NoneType" THEN Ok(<<>>)
    ELSE IF value.prefix = "0b"
         THEN IF \A k \in 1..Len(value.digits) : value.digits[k] \in Bit
              THEN Ok(value.digits)
              ELSE Raise("CreationError", "invalid digit")
    ELSE IF value.prefix = "0x"
         THEN Ok(HexBits(value.digits))
    ELSE Raise("CreationError", "unknown token")

\* the integer branch of __init__ with the signed flag ignored
BitArrayFromIntUnsigned(value, length, signed) ==
    IF IsNone(length) \/ Val(length) = 0 THEN Raise("CreationError", "a non-zero length is needed")
    ELSE LET n == Val(length)
         IN  IF value < 0 \/ value > Pow2(n) - 1 THEN Raise("CreationError", "value does not fit")
             ELSE Ok(UintBits(value % Pow2(n), n))

\* bitstring.BitArray(uint=value, length=length) or (int=..., length=...):
\* a length is required and must not be 0, and the value must fit.
BitArrayFromInt(value, length, signed) ==
    IF IsNone(length) \/ Val(length) = 0 THEN Raise("CreationError", "a non-zero length is needed")
    ELSE LET n == Val(length)
             lo == IF signed THEN 0 - Pow2(n - 1) ELSE 0
             hi == IF signed THEN Pow2(n - 1) - 1 ELSE Pow2(n) - 1
         IN  IF value < lo \/ value > hi THEN Raise("CreationError", "value does not fit")
             ELSE Ok(UintBits(value % Pow2(n), n))

\* __init__ padding a short literal with zeros on the right (append in
\* place of prepend)
VerilogBitsInitAppend(value, length, signed) ==
    IF value.type = "VerilogBits" THEN Ok(value.data)
    ELSE IF value.type = "int" THEN BitArrayFromInt(value.n, length, signed)
    ELSE LET r == BitArrayAuto(value)
         IN  IF r.kind = "raise" \/ IsNone(length) THEN r
             ELSE IF Len(r.data) > Val(length)
                  THEN Ok(PySliceFrom(r.data, 0 - Val(length)))
             ELSE IF Len(r.data) < Val(length)
                  THEN Ok(r.data \o UintBits(0, Val(length) - Len(r.data)))
             ELSE r

\* VerilogBits.__init__(value, length, signed): the _data of the new object,
\* or the exception the constructor raises.
VerilogBitsInit(value, length, signed) ==
    IF value.type = "VerilogBits" THEN Ok(value.data)
    ELSE IF value.type = "int" THEN BitArrayFromInt(value.n, length, signed)
    ELSE LET r == BitArrayAuto(value)
         IN  IF r.kind = "raise" \/ IsNone(length) THEN r
             ELSE IF Len(r.data) > Val(length)
                  THEN Ok(PySliceFrom(r.data, 0 - Val(length)))
             ELSE IF Len(r.data) < Val(length)
                  THEN Ok(UintBits(0, Val(length) - Len(r.data)) \o r.data)
             ELSE r

----------------------------------------------------------------------------
(* Keys of v[key]: an integer, a slice start:stop:step, or anything else.  *)
(* A slice's start, stop and step are optional; None also stands for any   *)
(* start or stop that is not an integer.                                   *)

IntKey(i) ==
    [type |-> "int", i |-> i, start |-> None, stop |-> None, step |-> None]
SliceKey(a, b, c) ==
    [type |-> "slice", i |-> 0, start |-> a, stop |-> b, step |-> c]
OtherKey ==
    [type |-> "other", i |-> 0, start |-> None, stop |-> None, step |-> None]

\* v[msb:lsb] with integer indices and no step
Range(msb, lsb) == SliceKey(Some(msb), Some(lsb), None)

\* _parse_verilog_slice with the end of the slice one short (the "+ 1" of
\* line 151 forgotten)
ParseVerilogSliceShortEnd(data, key) ==
    IF IsNone(key.start) \/ IsNone(key.stop)
    THEN Raise("TypeError", "slice indices must be integers")
    ELSE LET msb == Val(key.start)
             lsb == Val(key.stop)
             bit_length == Len(data)
             max_index == bit_length - 1
         IN  IF lsb > msb
             THEN Raise("ValueError", "LSB cannot be greater than MSB")
             ELSE IF ~(0 <= msb /\ msb <= max_index /\ 0 <= lsb /\ lsb <= max_index)
                  THEN Raise("IndexError", "slice indices are out of bounds")
             ELSE Ok(<<bit_length - 1 - msb, bit_length - 1 - lsb>>)

\* _parse_verilog_slice with the bounds check of line 139 made before the
\* order check of line 132
ParseVerilogSliceBoundsFirst(data, key) ==
    IF IsNone(key.start) \/ IsNone(key.stop)
    THEN Raise("TypeError", "slice indices must be integers")
    ELSE LET msb == Val(key.start)
             lsb == Val(key.stop)
             bit_length == Len(data)
             max_index == bit_length - 1
         IN  IF ~(0 <= msb /\ msb <= max_index /\ 0 <= lsb /\ lsb <= max_index)
             THEN Raise("IndexError", "slice indices are out of bounds")
             ELSE IF lsb > msb
                  THEN Raise("ValueError", "LSB cannot be greater than MSB")
             ELSE Ok(<<bit_length - 1 - msb, bit_length - 1 - lsb + 1>>)

\* VerilogBits._parse_verilog_slice(key) on a vector holding data:
\* Ok(<<start, end>>), the Python slice of _data, or the exception.
ParseVerilogSlice(data, key) ==
    IF IsNone(key.start) \/ IsNone(key.stop)
    THEN Raise("TypeError", "slice indices must be integers")
    ELSE LET msb == Val(key.start)
             lsb == Val(key.stop)
             bit_length == Len(data)
             max_index == bit_length - 1
         IN  IF lsb > msb
             THEN Raise("ValueError", "LSB cannot be greater than MSB")
             ELSE IF ~(0 <= msb /\ msb <= max_index /\ 0 <= lsb /\ lsb <= max_index)
                  THEN Raise("IndexError", "slice indices are out of bounds")
             ELSE Ok(<<bit_length - 1 - msb, bit_length - 1 - lsb + 1>>)

\* the integer branch of __getitem__ with the key taken in the hardware
\* convention, as the slices are: _data[len - 1 - key : len - key]
GetItemIntHardware(data, key) ==
    Ok(PySlice(data, Len(data) - 1 - key, Len(data) - key))

\* the integer branch of __getitem__ counting the key from 1 instead of 0
GetItemIntFromOne(data, key) == Ok(PySlice(data, key - 1, key))

\* the integer branch of __getitem__: _data[key : key + 1]
GetItemInt(data, key) == Ok(PySlice(data, key, key + 1))

\* __getitem__ reading the slice _data[lsb : msb + 1], the hardware indices
\* taken as Python positions without the translation
GetItemUntranslated(data, key) ==
    IF key.type = "slice"
    THEN IF ~IsNone(key.step)
         THEN Raise("ValueError", "Step is not supported")
         ELSE LET p == ParseVerilogSlice(data, key)
              IN  IF p.kind = "raise" THEN p
                  ELSE Ok(PySlice(data, Val(key.stop), Val(key.start) + 1))
    ELSE IF key.type = "int" THEN GetItemInt(data, key.i)
    ELSE Raise("TypeError", "Index must be an integer or slice")

\* VerilogBits.__getitem__(key): the _data of the vector returned, or the
\* exception raised.
GetItem(data, key) ==
    IF key.type = "slice"
    THEN IF ~IsNone(key.step)
         THEN Raise("ValueError", "Step is not supported")
         ELSE LET p == ParseVerilogSlice(data, key)
              IN  IF p.kind = "raise" THEN p
                  ELSE Ok(PySlice(data, p.data[1], p.data[2]))
    ELSE IF key.type = "int" THEN GetItemInt(data, key.i)
    ELSE Raise("TypeError", "Index must be an integer or slice")

\* _data[key] = value on a BitArray, key an integer and value a BitArray:
\* a negative key counts from the end, a key outside the array is an
\* IndexError, and the one bit at key is replaced by the value's bits.
BitArraySetInt(data, key, value) ==
    LET k == IF key < 0 THEN key + Len(data) ELSE key
    IN  IF k < 0 \/ k >= Len(data) THEN Raise("IndexError", "bit position out of range")
        ELSE Ok(BitArraySetSlice(data, k, k + 1, value))

\* __setitem__ writing the slice _data[lsb : msb + 1], the hardware indices
\* taken as Python positions without the translation
SetItemUntranslated(data, key, value) ==
    LET normalized_value == VerilogBitsInit(value, None, FALSE)
        value_to_set == normalized_value.data
    IN  IF normalized_value.kind = "raise" THEN normalized_value
        ELSE IF key.type = "slice"
        THEN IF ~IsNone(key.step)
         THEN Raise("ValueError", "Step is not supported")
             ELSE LET p == ParseVerilogSlice(data, key)
                  IN  IF p.kind = "raise" THEN p
                      ELSE Ok(BitArraySetSlice(data, Val(key.stop),
                                               Val(key.start) + 1, value_to_set))
        ELSE IF key.type = "int" THEN BitArraySetInt(data, key.i, value_to_set)
        ELSE Raise("TypeError", "Index must be an integer or slice")

\* VerilogBits.__setitem__(key, value): the receiver's _data after the call,
\* or the exception raised (the receiver's _data is then as it was).
SetItem(data, key, value) ==
    LET normalized_value == VerilogBitsInit(value, None, FALSE)
        value_to_set == normalized_value.data
    IN  IF normalized_value.kind = "raise" THEN normalized_value
        ELSE IF key.type = "slice"
        THEN IF ~IsNone(key.step)
         THEN Raise("ValueError", "Step is not supported")
             ELSE LET p == ParseVerilogSlice(data, key)
                  IN  IF p.kind = "raise" THEN p
                      ELSE Ok(BitArraySetSlice(data, p.data[1], p.data[2],
                                               value_to_set))
        ELSE IF key.type = "int" THEN BitArraySetInt(data, key.i, value_to_set)
        ELSE Raise("TypeError", "Index must be an integer or slice")

\* __setitem__ writing the addressed slice, clipped to the vector, before
\* the bounds of the range are checked
SetItemEffectWriteFirst(data, key, value) ==
    LET r == SetItem(data, key, value)
        v == VerilogBitsInit(value, None, FALSE)
    IN  IF r.kind = "ok" THEN r.data
        ELSE IF r.err = "IndexError" /\ key.type = "slice" /\ v.kind = "ok"
             THEN LET s == PyIndex(Len(data) - 1 - Val(key.start), Len(data))
                      e == PyIndex(Len(data) - Val(key.stop), Len(data))
                  IN  BitArraySetSlice(data, s, Max(s, e), v.data)
        ELSE data

\* the receiver's _data when __setitem__(key, value) has returned or raised:
\* every raise (in VerilogBits(value), the step check, _parse_verilog_slice,
\* bitstring's index check, the key's type) comes before the assignment to
\* _data, so a call that raises leaves _data as it was on entry
SetItemEffect(data, key, value) ==
    LET r == SetItem(data, key, value)
    IN  IF r.kind = "ok" THEN r.data ELSE data

----------------------------------------------------------------------------
(* The inputs the calls are tried with, relative to the receiver's length. *)

\* the vector of the repository's tests: VerilogBits(value=170, length=8)
TestValue == 170
TestLength == 8

\* constructions of the receiver: every binary literal of up to MaxLen
\* digits, the all-zero vectors VerilogBits(length=n), and the tests' vector
InitArgs ==
    {[value |-> StrValue("0b", d), length |-> None] : d \in BitSeqsUpTo(MaxLen)}
    \cup {[value |-> NoneValue, length |-> Some(n)] : n \in 0..MaxLen}
    \cup {[value |-> IntValue(TestValue), length |-> Some(TestLength)]}

\* keys of a read: every integer from -(n+1) to n, every range with both
\* indices from -1 to n, and slices with a step or a missing index
GetKeys(n) ==
    {IntKey(i) : i \in (0 - (n + 1))..n}
    \cup {Range(m, l) : m \in (0 - 1)..n, l \in (0 - 1)..n}
    \cup {SliceKey(Some(0), Some(0), Some(1)), SliceKey(Some(0), Some(1), Some(2)),
          SliceKey(Some(n), Some(0), Some(1)),
          SliceKey(Some(0), None, None), SliceKey(None, Some(0), None),
          OtherKey}

\* keys of a write that bitstring accepts: the integers -1 and 0..n-1 and
\* every range inside the vector
SetKeys(n) ==
    {IntKey(i) : i \in (0 - 1)..(n - 1)}
    \cup UNION {{Range(m, l) : l \in 0..m} : m \in 0..(n - 1)}

\* keys of a write that is refused: integers outside the vector, a range of
\* each invalid kind, a slice with a step or a missing index, another type
SetKeysRefused(n) ==
    {IntKey(0 - (n + 1)), IntKey(n),
     Range(n, 0), Range(0, 0 - 1), Range(0, 1),
     SliceKey(Some(0), Some(0), Some(1)),
     SliceKey(Some(0), None, None),
     OtherKey}

\* bit patterns of n bits: all zeros, all ones, and the two alternating ones
Patterns(n) ==
    {[k \in 1..n |-> 0], [k \in 1..n |-> 1],
     [k \in 1..n |-> k % 2], [k \in 1..n |-> (k + 1) % 2]}

\* values of a write: VerilogBits of 0 to MaxLen bits, binary and
\* hexadecimal literals, strings bitstring cannot parse, and the integers
SetValues ==
    {VbValue(d) : d \in UNION {Patterns(n) : n \in 0..MaxLen}}
    \cup {StrValue("0b", <<1>>), StrValue("0b", <<0, 1>>), StrValue("0x", <<10>>),
          StrValue("0b", <<2>>), StrValue("", <<1>>),
          IntValue(0), IntValue(1)}

\* the values the refused keys are tried with
SetValuesRefused ==
    {VbValue(<<1>>), StrValue("0b", <<1, 0>>), StrValue("", <<1>>), IntValue(1)}

\* the (key, value) pairs of the writes tried on a vector of n bits
SetCalls(n) ==
    (SetKeys(n) \X SetValues) \cup (SetKeysRefused(n) \X SetValuesRefused)

----------------------------------------------------------------------------
(* The state machine.                                                      *)

\* no call made, no object made
NoCall == [name |-> "none"]
NoObjects == arrays = <<>> /\ touched = {} /\ refs = <<>>
\* no task, no logger, no thread
NoService == task = <<>> /\ logger = <<>> /\ threads = <<>>

Init ==
    /\ \E a \in InitArgs :
        LET r == VerilogBitsInit(a.value, a.length, FALSE)
        IN  /\ r.kind = "ok"
            /\ bits = r.data
            /\ pre = r.data
            /\ op = [name |-> "__init__", key |-> OtherKey, value |-> NoneValue]
            /\ res = Ok(r.data)
    /\ fcall = NoCall /\ ret = Ok(<<>>)
    /\ NoObjects
    /\ NoService

\* r = v[key]
GetItemCall ==
    \E key \in GetKeys(Len(bits)) :
        /\ op' = [name |-> "__getitem__", key |-> key, value |-> NoneValue]
        /\ res' = GetItem(bits, key)
        /\ pre' = bits
        /\ UNCHANGED <<bits, fcall, ret, objectVars, serviceVars>>

\* v[key] = value
SetItemCall ==
    /\ Len(bits) <= MaxLen
    /\ \E call \in SetCalls(Len(bits)) :
        LET key == call[1]
            value == call[2]
            r == SetItem(bits, key, value)
        IN  /\ Len(r.data) <= MaxLen
            /\ op' = [name |-> "__setitem__", key |-> key, value |-> value]
            /\ res' = [r EXCEPT !.data = <<>>]
            /\ pre' = bits
            /\ bits' = SetItemEffect(bits, key, value)
            /\ UNCHANGED <<fcall, ret, objectVars, serviceVars>>

Next == GetItemCall \/ SetItemCall

Spec == Init /\ [][Next]_vars

----------------------------------------------------------------------------
(* The accessors, and the vocabulary of the properties.                    *)

\* VerilogBits.bin: one character per bit, most significant first
Bin(data) == [k \in 1..Len(data) |-> IF data[k] = 1 THEN "1" ELSE "0"]

\* VerilogBits.uint
Uint(data) == BitsUint(data)

\* the tests' vector VerilogBits(value=170, length=8), bin '10101010'
TestBits == VerilogBitsInit(IntValue(TestValue), Some(TestLength), FALSE).data

IsGet == op.name = "__getitem__"
IsSet == op.name = "__setitem__"

\* the last call's key is msb:lsb with integer indices and no step
IsRange == op.key.type = "slice" /\ IsNone(op.key.step)
           /\ ~IsNone(op.key.start) /\ ~IsNone(op.key.stop)
Msb == Val(op.key.start)
Lsb == Val(op.key.stop)

\* ... and the range lies inside the vector the call was made on
IsValidRange == IsRange /\ 0 <= Lsb /\ Lsb <= Msb /\ Msb <= Len(pre) - 1

\* the last call's key is an integer
IsIndex == op.key.type = "int"
Idx == op.key.i

----------------------------------------------------------------------------
(* C1.  The length of a VerilogBits is fixed at construction: no set,      *)
(* single-bit or ranged, with a value of any width, changes len(v); so     *)
(* after every set len(v) is what it was before it, and by induction what  *)
(* it was when v was constructed.                                          *)
(* The code replaces the addressed slice by the value's bits whatever      *)
(* their number, so this is violated.                                      *)

C1_LengthFixed == IsSet => Len(bits) = Len(pre)

----------------------------------------------------------------------------
(* C2.  Ranged read: for 0 <= lsb <= msb <= L-1, v[msb:lsb] returns a      *)
(* vector of length msb-lsb+1 whose hardware bit k is hardware bit lsb+k   *)
(* of v, for every k in 0..msb-lsb; it is storage positions                *)
(* [L-1-msb, L-lsb) of v.                                                  *)

C2_RangedRead ==
    (IsGet /\ IsValidRange) =>
        /\ res.kind = "ok"
        /\ Len(res.data) = Msb - Lsb + 1
        /\ \A k \in 0..(Msb - Lsb) : HwBit(res.data, k) = HwBit(pre, Lsb + k)
        /\ res.data = SubSeq(pre, (Len(pre) - 1 - Msb) + 1, Len(pre) - Lsb)

\* the tests' read v[5:2] of 10101010, which is 1010
C2_Witness ==
    /\ IsGet /\ IsValidRange
    /\ pre = TestBits /\ Msb = 5 /\ Lsb = 2
    /\ Bin(res.data) = <<"1", "0", "1", "0">>

----------------------------------------------------------------------------
(* C3.  Single-bit read.                                                   *)

\* C3 as stated: for 0 <= i < L, v[i] is a length-1 vector holding the bit
\* of weight 2^i (hardware convention: index 0 is the LSB), that is, v[i]
\* equals v[i:i].  The code indexes _data from the left, so it is violated.
C3_HardwareIndexRead ==
    (IsGet /\ IsIndex /\ 0 <= Idx /\ Idx < Len(pre)) =>
        /\ res.kind = "ok"
        /\ res.data = <<HwBit(pre, Idx)>>
        /\ res = GetItem(pre, Range(Idx, Idx))

\* C3 as amended: for 0 <= i < L, v[i] is a length-1 vector holding the bit
\* of weight 2^(L-1-i) (index 0 is the MSB, index L-1 the LSB), that is,
\* v[i] equals v[L-1-i : L-1-i].
C3_StorageIndexRead ==
    (IsGet /\ IsIndex /\ 0 <= Idx /\ Idx < Len(pre)) =>
        /\ res.kind = "ok"
        /\ res.data = <<HwBit(pre, Len(pre) - 1 - Idx)>>
        /\ Uint(res.data) = (Uint(pre) \div Pow2(Len(pre) - 1 - Idx)) % 2
        /\ res = GetItem(pre, Range(Len(pre) - 1 - Idx, Len(pre) - 1 - Idx))

\* v[0] of the three-bit vector 100 is its most significant bit, 1
C3_Witness ==
    /\ IsGet /\ IsIndex /\ Idx = 0
    /\ pre = <<1, 0, 0>>
    /\ res.kind = "ok" /\ res.data = <<1>>

----------------------------------------------------------------------------
(* C4.  Integer indexing follows Python order: for every vector and every  *)
(* i with 0 <= i < len(v), v[i] is a length-1 VerilogBits holding the i-th *)
(* character of v.bin counted from the left; for the vector built from 170 *)
(* at length 8 (bin 10101010), v[0].bin is '1' and v[7].bin is '0'.        *)

C4_PythonOrderIndexing ==
    (IsGet /\ IsIndex /\ 0 <= Idx /\ Idx < Len(pre)) =>
        /\ res.kind = "ok"
        /\ Len(res.data) = 1
        /\ Bin(res.data) = <<Bin(pre)[Idx + 1]>>
        /\ (pre = TestBits /\ Idx = 0) => Bin(res.data) = <<"1">>
        /\ (pre = TestBits /\ Idx = 7) => Bin(res.data) = <<"0">>

\* the tests' read v[7] of 10101010
C4_Witness ==
    /\ IsGet /\ IsIndex /\ Idx = 7
    /\ Bin(pre) = <<"1", "0", "1", "0", "1", "0", "1", "0">>
    /\ res.kind = "ok" /\ Bin(res.data) = <<"0">>

----------------------------------------------------------------------------
(* C5.  A successful set changes only the addressed bits: after v[i] =     *)
(* value (addressing hardware bit i) or v[msb:lsb] = value (addressing     *)
(* hardware bits lsb..msb), every bit of v at a hardware index outside the *)
(* addressed set has the value it had before the call.  (v is one object   *)
(* throughout: bits is the _data of the same receiver.)                    *)
(* The code writes v[i] at storage position i, which is hardware bit       *)
(* L-1-i: violated, already by the sets whose value has exactly as many    *)
(* bits as the key addresses, to which the formula keeps.  (A value of     *)
(* another width also shifts the bits above the range, see C7.)            *)

\* the hardware indices the last set addresses, as C5 reads the key
Addressed == IF IsIndex THEN {Idx} ELSE Lsb..Msb

\* the value of the last set as __setitem__ normalizes it: VerilogBits(value)
NormalizedValue == VerilogBitsInit(op.value, None, FALSE)

C5_SetChangesOnlyAddressed ==
    (IsSet /\ res.kind = "ok"
       /\ (IsValidRange \/ (IsIndex /\ 0 <= Idx /\ Idx < Len(pre)))
       /\ Len(NormalizedValue.data) = Cardinality(Addressed)) =>
        \A k \in 0..(Len(pre) - 1) :
            k \notin Addressed =>
                (k < Len(bits) /\ HwBit(bits, k) = HwBit(pre, k))

----------------------------------------------------------------------------
(* C6.  Set-then-get round trip: for every valid range msb >= lsb and      *)
(* every value w of width msb-lsb+1, given as a VerilogBits or as a radix  *)
(* string, after v[msb:lsb] = w the read v[msb:lsb] returns a vector equal *)
(* to w.                                                                   *)

C6_SetThenGet ==
    (IsSet /\ IsValidRange
       /\ op.value.type \in {"VerilogBits", "str"}
       /\ NormalizedValue.kind = "ok"
       /\ Len(NormalizedValue.data) = Msb - Lsb + 1) =>
        /\ res.kind = "ok"
        /\ GetItem(bits, op.key) = Ok(NormalizedValue.data)

\* v = 000; v[2:1] = '0b01' leaves 010, and v[2:1] reads 01
C6_Witness ==
    /\ IsSet /\ IsValidRange /\ Msb = 2 /\ Lsb = 1
    /\ pre = <<0, 0, 0>>
    /\ op.value = StrValue("0b", <<0, 1>>)
    /\ Bin(bits) = <<"0", "1", "0">>
    /\ Bin(GetItem(bits, op.key).data) = <<"0", "1">>

----------------------------------------------------------------------------
(* C7.  A ranged write v[msb:lsb] = value whose normalized value width     *)
(* differs from msb-lsb+1 fails with a WidthMismatch error instead of      *)
(* writing.                                                                *)
(* The code has no such check: the write succeeds and resizes v.           *)

C7_WidthMismatchRaises ==
    (IsSet /\ IsValidRange
       /\ NormalizedValue.kind = "ok"
       /\ Len(NormalizedValue.data) # Msb - Lsb + 1) =>
        (res.kind = "raise" /\ bits = pre)

----------------------------------------------------------------------------
(* C8.  A set accepts a bare integer as the value, with implicit width 1:  *)
(* for every valid index i and b in {0, 1}, v[i] = b succeeds and leaves   *)
(* the addressed bit equal to b.                                           *)
(* The code normalizes with VerilogBits(b), which has no length to give    *)
(* bitstring, and bitstring raises CreationError: violated.                *)

C8_IntegerValueSet ==
    (IsSet /\ IsIndex /\ 0 <= Idx /\ Idx < Len(pre)
       /\ op.value.type = "int" /\ op.value.n \in Bit) =>
        /\ res.kind = "ok"
        /\ Len(bits) = Len(pre)
        /\ bits[Idx + 1] = op.value.n

----------------------------------------------------------------------------
(* C9.  A single-bit read v[i] with i outside 0 <= i < length (negative i  *)
(* and i = length included) fails with an index-out-of-range error; it     *)
(* never returns a vector.                                                 *)
(* The code slices _data[i:i+1], and a Python slice never raises: it       *)
(* returns an empty vector, or one bit counted from the end: violated.     *)

C9_IndexOutOfRangeRaises ==
    (IsGet /\ IsIndex /\ ~(0 <= Idx /\ Idx < Len(pre))) =>
        (res.kind = "raise" /\ res.err = "IndexError")

----------------------------------------------------------------------------
(* C10.  Ranged read validation: v[msb:lsb] fails with ValueError, 'LSB    *)
(* cannot be greater than MSB', whenever lsb > msb; with IndexError        *)
(* whenever lsb <= msb but msb or lsb lies outside [0, length-1]; and with *)
(* ValueError whenever a step is given.  No vector is returned in any of   *)
(* these cases.                                                            *)

C10_RangedReadValidation ==
    (IsGet /\ op.key.type = "slice") =>
        /\ ~IsNone(op.key.step) =>
              (res.kind = "raise" /\ res.err = "ValueError"
                 /\ res.msg = "Step is not supported")
        /\ (IsRange /\ Lsb > Msb) =>
              (res.kind = "raise" /\ res.err = "ValueError"
                 /\ res.msg = "LSB cannot be greater than MSB")
        /\ (IsRange /\ Lsb <= Msb
              /\ ~(0 <= Lsb /\ Msb <= Len(pre) - 1)) =>
              (res.kind = "raise" /\ res.err = "IndexError")

\* the tests' read v[8:0] of an 8-bit vector
C10_Witness ==
    /\ IsGet /\ IsRange /\ Msb = 8 /\ Lsb = 0
    /\ Len(pre) = 8
    /\ res.kind = "raise" /\ res.err = "IndexError"

----------------------------------------------------------------------------
(* C11.  Validation precedes mutation: whenever a set, single-bit or       *)
(* ranged, fails with any error (unparsable value, lsb > msb, index out of *)
(* bounds, step given, unsupported key type), the receiver's bits and      *)
(* length are exactly what they were before the call.                      *)

C11_FailedSetLeavesReceiver ==
    (IsSet /\ res.kind = "raise") => (bits = pre /\ Len(bits) = Len(pre))

\* v = 101; v[3:0] = VerilogBits('0b1') raises IndexError and v is still 101
C11_Witness ==
    /\ IsSet /\ IsRange /\ Msb = 3 /\ Lsb = 0
    /\ op.value = VbValue(<<1>>)
    /\ res.kind = "raise" /\ res.err = "IndexError"
    /\ pre = <<1, 0, 1>> /\ Bin(bits) = <<"1", "0", "1">>

----------------------------------------------------------------------------
(* Equality, replication and concatenation.                                *)

\* a == other refusing an other that is not a VerilogBits
EqStrict(data, other) ==
    IF other.type # "VerilogBits"
    THEN Raise("TypeError", "other is not a VerilogBits instance")
    ELSE Ok(/\ Len(data) = Len(other.data)
            /\ \A k \in 1..Len(data) : data[k] = other.data[k])

\* a == other deciding by the numbers the two stand for
EqByNumber(data, other) ==
    IF other.type = "VerilogBits" THEN Ok(BitsUint(data) = BitsUint(other.data))
    ELSE IF other.type = "int" THEN Ok(BitsUint(data) = other.n)
    ELSE Ok(FALSE)

\* a == other, a a VerilogBits with _data data.  __eq__ returns
\* NotImplemented for an other that is not a VerilogBits; int, str and
\* NoneType then decline the reflected comparison as well, and Python
\* compares the two by identity: they are different objects.  Two BitArrays
\* are equal when they have the same length and the same bits.
Eq(data, other) ==
    IF other.type # "VerilogBits" THEN Ok(FALSE)
    ELSE Ok(/\ Len(data) = Len(other.data)
            /\ \A k \in 1..Len(data) : data[k] = other.data[k])

\* the operators VerilogBits defines only to refuse them, and int()
Comparisons == {"<", "<=", ">", ">="}
Arithmetic == {"-", "*", "/"}
Bitwise == {"&", "|", "^", "~"}
Unary == {"~", "int"}
DisabledOperators == Comparisons \cup {"+"} \cup Arithmetic \cup Bitwise \cup {"int"}

\* the text of the TypeError each of them raises
DisabledMessage(name) ==
    IF name = "+" THEN "The '+' operator is disabled. Please use VerilogBits.concat() for explicit concatenation."
    ELSE IF name \in Comparisons THEN "Comparison operators (<, >, <=, >=) are not supported yet."
    ELSE IF name \in Arithmetic THEN "Arithmetic operators (-, *, /, etc.) are not supported yet."
    ELSE IF name \in Bitwise THEN "Bitwise operators (&, |, ^, ~) are not supported yet."
    ELSE "Implicit conversion to int is not supported. Use .uint property."

\* + joining two vectors as concat does
DisabledButAddJoins(name, data, other) ==
    IF name = "+" /\ other.type = "VerilogBits" THEN Ok(data \o other.data)
    ELSE Raise("TypeError", DisabledMessage(name))

\* v < other, v + other, v & other, ~v, int(v), ...: the method called is a
\* raise statement and nothing else
Disabled(name, data, other) == Raise("TypeError", DisabledMessage(name))

\* bitstring.BitArray * n: n copies end to end, a new array
RECURSIVE Times(_, _)
Times(data, n) == IF n <= 0 THEN <<>> ELSE data \o Times(data, n - 1)

\* replicate with one copy as the least
ReplicateAtLeastOnce(data, n) ==
    IF n.type # "int" \/ n.n < 0
    THEN Raise("ValueError", "Replication count must be a non-negative integer.")
    ELSE Ok(Times(data, Max(n.n, 1)))

\* v.replicate(n)
Replicate(data, n) ==
    IF n.type # "int" \/ n.n < 0
    THEN Raise("ValueError", "Replication count must be a non-negative integer.")
    ELSE Ok(Times(data, n.n))

\* the loop of concat from argument i on, concatenated_data being acc
RECURSIVE ConcatFrom(_, _, _)
ConcatFrom(args, i, acc) ==
    IF i > Len(args) THEN Ok(acc)
    ELSE IF args[i].type # "VerilogBits"
         THEN Raise("TypeError", "Argument is not a VerilogBits instance")
    ELSE ConcatFrom(args, i + 1, acc \o args[i].data)

\* concat laying the last argument first
ConcatLastFirst(args) ==
    ConcatFrom([k \in 1..Len(args) |-> args[Len(args) + 1 - k]], 1, <<>>)

\* concat checking the type of its first argument only and skipping the
\* others that are not vectors
ConcatFirstChecked(args) ==
    LET IsVb(a) == a.type = "VerilogBits"
    IN  IF Len(args) > 0 /\ ~IsVb(args[1])
        THEN Raise("TypeError", "Argument is not a VerilogBits instance")
        ELSE ConcatFrom(SelectSeq(args, IsVb), 1, <<>>)

\* VerilogBits.concat(*args)
Concat(args) == ConcatFrom(args, 1, <<>>)

----------------------------------------------------------------------------
(* Memory files.  A file is the sequence of the tokens written, each with  *)
(* the separator written after it; a hexadecimal token is the sequence of  *)
(* its digits' values, a binary token the sequence of its characters.      *)

\* bitstring.BitArray.hex: one digit for every four bits, no prefix; an
\* array whose length is not a multiple of 4 has no hex reading
BitArrayHex(data) ==
    IF Len(data) % 4 # 0
    THEN Raise("InterpretError", "Cannot convert to hex unambiguously - not a multiple of 4 bits long.")
    ELSE Ok([k \in 1..(Len(data) \div 4) |-> BitsUint(SubSeq(data, 4 * k - 3, 4 * k))])

\* the outcome of a write: the exception if any, and what is in the file
Written(r, content) == [r EXCEPT !.data = content]

\* the loop of write_mem_file from word i on, the file holding content
RECURSIVE WriteWordsFrom(_, _, _, _, _)
WriteWordsFrom(data, i, is_hex, words_per_line, content) ==
    IF i > Len(data) THEN Written(Ok(<<>>), content)
    ELSE LET value_str == IF is_hex THEN BitArrayHex(data[i]) ELSE Ok(Bin(data[i]))
             sep == IF i % words_per_line = 0 THEN "\n" ELSE " "
         IN  IF value_str.kind = "raise" THEN Written(value_str, content)
             ELSE WriteWordsFrom(data, i + 1, is_hex, words_per_line,
                                 Append(content, [token |-> value_str.data, sep |-> sep]))

\* MemTools.write_mem_file(file_path, data, is_hex, words_per_line)
WriteMemFile(data, is_hex, words_per_line) ==
    IF data = <<>> THEN Written(Raise("ValueError", "Input data cannot be empty."), <<>>)
    ELSE WriteWordsFrom(data, 1, is_hex, words_per_line, <<>>)

----------------------------------------------------------------------------
(* The calls that are functions of their arguments.  The initial state     *)
(* draws a call with its arguments; the one step applies it.               *)

\* the outcome of a call not made yet
Pending == [kind |-> "pending", err |-> "", msg |-> "", data |-> <<>>]

\* VerilogBits.sint: the two's-complement value (of one bit or more)
Sint(data) ==
    IF data[1] = 1 THEN BitsUint(data) - Pow2(Len(data)) ELSE BitsUint(data)

\* VerilogBits(value, length, signed)
NewCallOf(value, length, signed) ==
    [name |-> "__init__", value |-> value, length |-> length, signed |-> signed]

\* hexadecimal digits the literals are written with
HexDigits == {0, 1, 10, 15}

\* the literals of the spec's truncation and zero-extension examples
Lit11110000 == StrValue("0b", <<1, 1, 1, 1, 0, 0, 0, 0>>)
Lit1111 == StrValue("0b", <<1, 1, 1, 1>>)

\* the radix-prefixed literals: binary ones of 1 to MaxWidth digits,
\* hexadecimal ones of 1 and 2 digits, and the spec's examples
Literals ==
    {StrValue("0b", d) : d \in BitSeqsUpTo(MaxWidth) \ {<<>>}}
    \cup {StrValue("0x", <<d>>) : d \in HexDigits}
    \cup {StrValue("0x", <<d, e>>) : d \in HexDigits, e \in HexDigits}
    \cup {Lit11110000}

\* constructor calls: every integer from -2^(L-1)-1 to 2^L at every width L
\* up to MaxWidth, unsigned and signed, and with no length; the tests'
\* VerilogBits(170, 8); every literal at every length up to twice MaxWidth
\* and one more, and with no length; strings bitstring cannot parse
NewCalls ==
    {NewCallOf(IntValue(v), Some(n), sg) :
        v \in (0 - Pow2(MaxWidth - 1) - 1)..Pow2(MaxWidth),
        n \in 0..MaxWidth, sg \in BOOLEAN}
    \cup {NewCallOf(IntValue(1), None, FALSE),
          NewCallOf(IntValue(TestValue), Some(TestLength), FALSE)}
    \cup {NewCallOf(lit, Some(n), FALSE) :
            lit \in Literals, n \in 0..(2 * MaxWidth + 1)}
    \cup {NewCallOf(lit, None, FALSE) : lit \in Literals}
    \cup {NewCallOf(StrValue("0b", <<2>>), None, FALSE),
          NewCallOf(StrValue("", <<1, 0>>), Some(2), FALSE)}

\* longest vector given to concat, replicate and ==, most arguments of a
\* concat, and largest replication count
MaxArgLen == 2
MaxArgs == 3
MaxCount == 4

\* what a caller may hand over where a vector is expected: vectors, and a
\* raw integer, a radix string and None
ArgVectors == {VbValue(d) : d \in BitSeqsUpTo(MaxArgLen)}
ArgOthers == {IntValue(1), StrValue("0b", <<1>>), NoneValue}

RECURSIVE SeqsUpTo(_, _)
SeqsUpTo(S, n) ==
    IF n = 0 THEN {<<>>}
    ELSE LET shorter == SeqsUpTo(S, n - 1)
         IN  shorter \cup {Append(q, x) : q \in {t \in shorter : Len(t) = n - 1}, x \in S}

\* VerilogBits.concat(v1, v2, v3) of the tests
TestConcatArgs ==
    <<VbValue(<<1, 1, 1, 1>>), VbValue(<<0, 0, 0, 0>>), VbValue(<<1, 0, 1, 0>>)>>

ConcatCalls ==
    {[name |-> "concat", args |-> a] :
        a \in SeqsUpTo(ArgVectors \cup ArgOthers, MaxArgs) \cup {TestConcatArgs}}

ReplicateCalls ==
    {[name |-> "replicate", self |-> d, n |-> n] :
        d \in BitSeqsUpTo(MaxArgLen),
        n \in {IntValue(i) : i \in (0 - 1)..MaxCount} \cup {StrValue("0b", <<1>>), NoneValue}}

EqCalls ==
    {[name |-> "__eq__", self |-> d, other |-> o] :
        d \in BitSeqsUpTo(MaxLen),
        o \in {VbValue(e) : e \in BitSeqsUpTo(MaxLen)}
              \cup {IntValue(i) : i \in 0..(Pow2(MaxLen) - 1)}
              \cup {StrValue("0b", e) : e \in BitSeqsUpTo(MaxLen) \ {<<>>}}
              \cup {NoneValue}}

\* the words written to memory files: every vector of 1 to 2 * MaxWidth bits
MemWords == BitSeqsUpTo(2 * MaxWidth) \ {<<>>}

\* write_mem_file with no word, with every one word, and with two words of
\* up to MaxArgLen bits or of 4 bits, in both formats, one and two to a line
WriteCalls ==
    {[name |-> "write_mem_file", data |-> d, is_hex |-> h, words_per_line |-> n] :
        d \in {<<>>} \cup {<<w>> : w \in MemWords}
               \cup {<<w, x>> : w \in BitSeqs(4), x \in BitSeqsUpTo(MaxArgLen) \cup {<<1, 0, 1, 0>>}},
        h \in BOOLEAN, n \in 1..2}

\* the calls drawn in the initial state
PureCalls ==
    NewCalls \cup ConcatCalls \cup ReplicateCalls \cup EqCalls \cup WriteCalls

InitPure ==
    /\ fcall \in PureCalls
    /\ ret = Pending
    /\ bits = <<>> /\ pre = <<>> /\ res = Ok(<<>>)
    /\ op = [name |-> "none", key |-> OtherKey, value |-> NoneValue]
    /\ NoObjects
    /\ NoService

\* VerilogBits(value, length, signed)
NewCall ==
    /\ fcall.name = "__init__" /\ ret.kind = "pending"
    /\ ret' = VerilogBitsInit(fcall.value, fcall.length, fcall.signed)
    /\ UNCHANGED <<fcall, receiverVars, objectVars, serviceVars>>

\* VerilogBits.concat(*args)
ConcatCall ==
    /\ fcall.name = "concat" /\ ret.kind = "pending"
    /\ ret' = Concat(fcall.args)
    /\ UNCHANGED <<fcall, receiverVars, objectVars, serviceVars>>

\* v.replicate(n)
ReplicateCall ==
    /\ fcall.name = "replicate" /\ ret.kind = "pending"
    /\ ret' = Replicate(fcall.self, fcall.n)
    /\ UNCHANGED <<fcall, receiverVars, objectVars, serviceVars>>

\* v == other
EqCall ==
    /\ fcall.name = "__eq__" /\ ret.kind = "pending"
    /\ ret' = Eq(fcall.self, fcall.other)
    /\ UNCHANGED <<fcall, receiverVars, objectVars, serviceVars>>

\* MemTools().write_mem_file(file_path, data, is_hex, words_per_line)
WriteCall ==
    /\ fcall.name = "write_mem_file" /\ ret.kind = "pending"
    /\ ret' = WriteMemFile(fcall.data, fcall.is_hex, fcall.words_per_line)
    /\ UNCHANGED <<fcall, receiverVars, objectVars, serviceVars>>

\* vec = VerilogBits.concat(vb, va), then vec[key]: a ranged read of the
\* vector a concat of two vectors returned
UnpackCall ==
    /\ fcall.name = "concat" /\ ret.kind = "ok" /\ Len(fcall.args) = 2
    /\ \E key \in UNION {{Range(m, l) : l \in 0..m} : m \in 0..Len(ret.data)} :
        /\ fcall' = [name |-> "__getitem__", self |-> ret.data, key |-> key,
                     args |-> fcall.args]
        /\ ret' = GetItem(ret.data, key)
    /\ UNCHANGED <<receiverVars, objectVars, serviceVars>>

NextPure ==
    NewCall \/ ConcatCall \/ ReplicateCall \/ EqCall \/ WriteCall \/ UnpackCall

SpecPure == InitPure /\ [][NextPure]_vars

IsNew == fcall.name = "__init__" /\ ret.kind # "pending"
IsConcat == fcall.name = "concat" /\ ret.kind # "pending"
IsReplicate == fcall.name = "replicate" /\ ret.kind # "pending"
IsEq == fcall.name = "__eq__" /\ ret.kind # "pending"
IsWrite == fcall.name = "write_mem_file" /\ ret.kind # "pending"
IsUnpack == fcall.name = "__getitem__"

----------------------------------------------------------------------------
(* C12.  Integer construction round trip: for every width L >= 1 and every *)
(* v with 0 <= v <= 2^L - 1, VerilogBits(v, L).uint = v and the vector has *)
(* exactly L bits; for every v with -2^(L-1) <= v <= 2^(L-1) - 1,          *)
(* VerilogBits(v, L, signed=True).sint = v and the bits are the L-bit      *)
(* two's-complement encoding of v.                                         *)

\* the L-bit two's-complement encoding of v: v itself in binary when v is
\* not negative, 2^L + v in binary when it is
TwosComplement(v, n) == IF v >= 0 THEN UintBits(v, n) ELSE UintBits(Pow2(n) + v, n)

C12_IntegerRoundTrip ==
    (IsNew /\ fcall.value.type = "int" /\ ~IsNone(fcall.length)
       /\ Val(fcall.length) >= 1) =>
        LET v == fcall.value.n
            n == Val(fcall.length)
        IN  /\ (~fcall.signed /\ 0 <= v /\ v <= Pow2(n) - 1) =>
                  (ret.kind = "ok" /\ Len(ret.data) = n /\ Uint(ret.data) = v)
            /\ (fcall.signed /\ 0 - Pow2(n - 1) <= v /\ v <= Pow2(n - 1) - 1) =>
                  (ret.kind = "ok" /\ Len(ret.data) = n /\ Sint(ret.data) = v
                     /\ ret.data = TwosComplement(v, n))

\* VerilogBits(-3, 4, signed=True) is 1101, and its sint is -3
C12_Witness ==
    /\ IsNew /\ fcall = NewCallOf(IntValue(0 - 3), Some(4), TRUE)
    /\ ret.kind = "ok" /\ Bin(ret.data) = <<"1", "1", "0", "1">>
    /\ Sint(ret.data) = 0 - 3

----------------------------------------------------------------------------
(* Radix-prefixed literals read as numbers.                                *)

\* the number the digits write in the base
RECURSIVE DigitsValue(_, _)
DigitsValue(ds, base) ==
    IF ds = <<>> THEN 0
    ELSE DigitsValue(SubSeq(ds, 1, Len(ds) - 1), base) * base + ds[Len(ds)]

\* "0b..." is base 2 with one bit a digit, "0x..." base 16 with four
Radix(lit) == IF lit.prefix = "0x" THEN 16 ELSE 2
NaturalWidth(lit) == Len(lit.digits) * (IF lit.prefix = "0x" THEN 4 ELSE 1)
LiteralValue(lit) == DigitsValue(lit.digits, Radix(lit))

\* the constructor was given a literal bitstring parses, and a length or none
IsNewLiteral == IsNew /\ fcall.value \in Literals
NewLength == Val(fcall.length)

(* C13.  Truncation on construction: for a radix-prefixed literal of       *)
(* natural width W and every target length n with 0 <= n < W,              *)
(* VerilogBits(literal, length=n) has exactly n bits and they are the n    *)
(* low-order bits of the literal (its uint equals the literal's value      *)
(* mod 2^n); no error is raised.                                           *)
C13_Truncation ==
    (IsNewLiteral /\ ~IsNone(fcall.length)
       /\ 0 <= NewLength /\ NewLength < NaturalWidth(fcall.value)) =>
        /\ ret.kind = "ok"
        /\ Len(ret.data) = NewLength
        /\ Uint(ret.data) = LiteralValue(fcall.value) % Pow2(NewLength)

(* C14.  Zero-extension on construction: for a radix-prefixed literal of   *)
(* natural width W and every target length n > W,                          *)
(* VerilogBits(literal, length=n) has exactly n bits, its n-W high-order   *)
(* bits are 0 and its W low-order bits are the literal's bits, so its uint *)
(* equals the literal's value; with length omitted the width is exactly W. *)
C14_ZeroExtension ==
    IsNewLiteral =>
        LET W == NaturalWidth(fcall.value)
        IN  /\ (~IsNone(fcall.length) /\ NewLength > W) =>
                  /\ ret.kind = "ok"
                  /\ Len(ret.data) = NewLength
                  /\ \A k \in 1..(NewLength - W) : ret.data[k] = 0
                  /\ Uint(SubSeq(ret.data, NewLength - W + 1, NewLength))
                        = LiteralValue(fcall.value)
                  /\ Uint(ret.data) = LiteralValue(fcall.value)
            /\ IsNone(fcall.length) =>
                  (ret.kind = "ok" /\ Len(ret.data) = W
                     /\ Uint(ret.data) = LiteralValue(fcall.value))

\* VerilogBits('0b1111', length=8) is 00001111
C14_Witness ==
    /\ IsNew /\ fcall = NewCallOf(Lit1111, Some(8), FALSE)
    /\ ret.kind = "ok"
    /\ Bin(ret.data) = <<"0", "0", "0", "0", "1", "1", "1", "1">>

----------------------------------------------------------------------------
\* the arguments of the concat are all vectors
AllVectors == \A i \in 1..Len(fcall.args) : fcall.args[i].type = "VerilogBits"

\* the length of the arguments before argument i, together
RECURSIVE LengthBefore(_, _)
LengthBefore(args, i) ==
    IF i <= 1 THEN 0 ELSE LengthBefore(args, i - 1) + Len(args[i - 1].data)

(* C17.  Concatenation ordering: for every sequence of vectors a1..ak,     *)
(* concat(a1, ..., ak) is a VerilogBits whose bin string is a1.bin         *)
(* followed by a2.bin ... followed by ak.bin (first argument occupies the  *)
(* highest-order bits, last the lowest-order bits) and whose length is the *)
(* sum of the argument lengths.                                            *)
C17_ConcatOrder ==
    (IsConcat /\ AllVectors) =>
        LET args == fcall.args
        IN  /\ ret.kind = "ok"
            /\ Len(ret.data) = LengthBefore(args, Len(args) + 1)
            /\ \A i \in 1..Len(args) : \A k \in 1..Len(args[i].data) :
                  Bin(ret.data)[LengthBefore(args, i) + k] = Bin(args[i].data)[k]

\* concat(1111, 0000, 1010) is 111100001010
C17_Witness ==
    /\ IsConcat /\ fcall.args = TestConcatArgs
    /\ ret.kind = "ok"
    /\ Bin(ret.data) = <<"1", "1", "1", "1", "0", "0", "0", "0", "1", "0", "1", "0">>

(* C18.  Concatenation is strictly typed: if any argument of concat, at    *)
(* any position, is not a VerilogBits (a raw integer, a radix string), the *)
(* call fails with TypeError and returns no vector, whatever the other     *)
(* arguments are.                                                          *)
C18_ConcatTyped ==
    (IsConcat /\ ~AllVectors) =>
        (ret.kind = "raise" /\ ret.err = "TypeError" /\ ret.data = <<>>)

\* concat(VerilogBits('0b10'), VerilogBits('0b1'), '0b1') raises TypeError
C18_Witness ==
    /\ IsConcat
    /\ fcall.args = <<VbValue(<<1, 0>>), VbValue(<<1>>), StrValue("0b", <<1>>)>>
    /\ ret.kind = "raise" /\ ret.err = "TypeError"

(* C19.  Replication: for every vector v and every integer n >= 0,         *)
(* v.replicate(n) is a VerilogBits whose bin string is v.bin repeated n    *)
(* times and whose length is n * len(v); replicate(0) is a zero-length     *)
(* vector.                                                                 *)
C19_Replication ==
    (IsReplicate /\ fcall.n.type = "int" /\ fcall.n.n >= 0) =>
        LET v == fcall.self
            n == fcall.n.n
        IN  /\ ret.kind = "ok"
            /\ Len(ret.data) = n * Len(v)
            /\ \A k \in 1..Len(ret.data) :
                  Bin(ret.data)[k] = Bin(v)[((k - 1) % Len(v)) + 1]
            /\ n = 0 => ret.data = <<>>

\* VerilogBits('0b10').replicate(4) is 10101010, and replicate(0) of it is
\* reached as well (see C19_Replication's last conjunct)
C19_Witness ==
    /\ IsReplicate /\ fcall.self = <<1, 0>> /\ fcall.n = IntValue(4)
    /\ ret.kind = "ok"
    /\ Bin(ret.data) = <<"1", "0", "1", "0", "1", "0", "1", "0">>

(* C20.  Equality is exact content match between vectors only: a == b is   *)
(* true iff both are VerilogBits with the same length and the same bit at  *)
(* every position (two vectors with the same uint but different lengths    *)
(* are not equal), and a vector never compares equal to a raw integer or   *)
(* string, even one denoting the same value.                               *)
C20_EqualityExact ==
    IsEq =>
        LET a == fcall.self
            o == fcall.other
        IN  /\ ret.kind = "ok"
            /\ ret.data = TRUE <=>
                  /\ o.type = "VerilogBits"
                  /\ Bin(a) = Bin(o.data)
            /\ (o.type = "VerilogBits" /\ Len(a) # Len(o.data)) => ret.data = FALSE
            /\ o.type \in {"int", "str"} => ret.data = FALSE

\* VerilogBits('0b101') == 5 is False, 5 being the uint of 101
C20_Witness ==
    /\ IsEq /\ fcall.self = <<1, 0, 1>> /\ fcall.other = IntValue(5)
    /\ Uint(fcall.self) = fcall.other.n
    /\ ret = Ok(FALSE)

----------------------------------------------------------------------------
(* Objects.  Every VerilogBits holds one bitstring.BitArray in _data; two  *)
(* objects share storage when their _data is the same BitArray.  There are *)
(* two vectors v and w made from literals, and a name r bound to the       *)
(* result of the last call that returned a vector of v and w.  arrays      *)
(* gives the bits of each BitArray by its address, refs the address each   *)
(* object's _data holds, with the call that made the object and the        *)
(* objects it was made from.                                               *)

\* longest vector among the objects
MaxObjLen == 2

\* v, w and r in refs
Originals == {1, 2}
Derived == 3
\* v and r are the receivers of calls; w is an argument of concat and ==
Receivers == {1, Derived}

\* the address of a BitArray not made yet: none of v's and w's
Fresh(rf) == Max(rf[1].addr, rf[2].addr) + 1

\* the BitArray at addr becomes data
Store(arrs, addr, data) ==
    [a \in (DOMAIN arrs) \cup {addr} |-> IF a = addr THEN data ELSE arrs[a]]

\* the copy branch keeping the argument's own BitArray
CopyAddressShared(rf, src) == src

\* __init__ from another VerilogBits: value._data.copy() is a new BitArray
CopyAddress(rf, src) == Fresh(rf)

\* __getitem__: slicing self._data makes a new BitArray, which the returned
\* VerilogBits keeps as its _data
GetAddress(rf, src) == Fresh(rf)

\* replicate handing back the receiver's own BitArray for a count of 1
ReplicateAddressSameForOne(rf, src, n) == IF n = 1 THEN src ELSE Fresh(rf)

\* replicate: self._data * n is a new BitArray for every n
ReplicateAddress(rf, src, n) == Fresh(rf)

\* concat: concatenated_data starts as a new BitArray() and the arguments'
\* bits are appended to it
ConcatAddress(rf, srcs) == Fresh(rf)

Objects == 1..Len(refs)
Data(i) == arrays[refs[i].addr]

ObjectRef(addr, by, of) == [addr |-> addr, by |-> by, of |-> of]
ObjCall(name, self) == [name |-> name, self |-> self]

\* r = the new object
Bind(ref) == <<refs[1], refs[2], ref>>

\* the BitArrays of the objects in objs whose bits or length the call changed
Changed(arrs, after, rf, objs) ==
    {a \in {rf[i].addr : i \in objs} : after[a] # arrs[a]}

\* the vectors the objects start as
ObjInitBits == BitSeqsUpTo(MaxObjLen) \ {<<>>}

\* the writes tried on an object of n bits: every accepted key with a
\* vector of two bits and a literal of one, and two refused writes
ObjSetCalls(n) ==
    (SetKeys(n) \X {VbValue(<<1, 0>>), StrValue("0b", <<0>>)})
    \cup {<<IntKey(n), VbValue(<<1>>)>>, <<IntKey(0), IntValue(1)>>}

\* the reads tried on an object of n bits: every bit, every range inside
\* the vector, and a range that is refused
ObjGetKeys(n) ==
    {IntKey(i) : i \in 0..(n - 1)}
    \cup UNION {{Range(m, l) : l \in 0..m} : m \in 0..(n - 1)}
    \cup {Range(n, 0)}

\* replication counts tried on an object
ObjCounts == 0..2

InitObjects ==
    /\ \E v \in ObjInitBits, w \in BitSeqs(1) : arrays = <<v, w>>
    /\ touched = {}
    /\ refs = <<ObjectRef(1, "new", {}), ObjectRef(2, "new", {})>>
    /\ fcall = NoCall /\ ret = Ok(<<>>)
    /\ bits = <<>> /\ pre = <<>> /\ res = Ok(<<>>)
    /\ op = [name |-> "none", key |-> OtherKey, value |-> NoneValue]
    /\ NoService

\* the call made the VerilogBits r with _data at addr holding data
Returned(addr, data, by, of) ==
    /\ arrays' = Store(arrays, addr, data)
    /\ refs' = Bind(ObjectRef(addr, by, of))
    /\ touched' = Changed(arrays, arrays', refs, Originals)

\* r = VerilogBits(v)
CopyObj ==
    /\ \E i \in Originals \cap Receivers :
        LET r == VerilogBitsInit(VbValue(Data(i)), None, FALSE)
        IN  /\ Returned(CopyAddress(refs, refs[i].addr), r.data, "copy", {i})
            /\ fcall' = ObjCall("__init__", i)
            /\ ret' = r
    /\ UNCHANGED <<receiverVars, serviceVars>>

\* r = v[key], and v[key] with the result dropped
GetObj ==
    /\ \E i \in Objects \cap Receivers : \E key \in ObjGetKeys(Len(Data(i))) :
        LET r == GetItem(Data(i), key)
        IN  /\ ret' = r
            /\ fcall' = ObjCall("__getitem__", i)
            /\ IF r.kind = "ok" /\ i \in Originals
               THEN Returned(GetAddress(refs, refs[i].addr), r.data, "__getitem__", {i})
               ELSE /\ UNCHANGED <<arrays, refs>>
                    /\ touched' = Changed(arrays, arrays', refs, Objects)
    /\ UNCHANGED <<receiverVars, serviceVars>>

\* r = VerilogBits.concat(a) and r = VerilogBits.concat(a, b)
ConcatObj ==
    /\ \E args \in SeqsUpTo(Originals, 2) \ {<<>>} :
        LET r == Concat([k \in 1..Len(args) |-> VbValue(Data(args[k]))])
            srcs == {args[k] : k \in 1..Len(args)}
        IN  /\ Len(r.data) <= MaxObjLen
            /\ Returned(ConcatAddress(refs, {refs[i].addr : i \in srcs}), r.data, "concat", srcs)
            /\ fcall' = ObjCall("concat", args[1])
            /\ ret' = r
    /\ UNCHANGED <<receiverVars, serviceVars>>

\* r = v.replicate(n)
ReplicateObj ==
    /\ \E i \in Originals \cap Receivers, n \in ObjCounts :
        LET r == Replicate(Data(i), IntValue(n))
        IN  /\ Len(r.data) <= MaxObjLen
            /\ Returned(ReplicateAddress(refs, refs[i].addr, n), r.data, "replicate", {i})
            /\ fcall' = ObjCall("replicate", i)
            /\ ret' = r
    /\ UNCHANGED <<receiverVars, serviceVars>>

\* a == b
EqObj ==
    /\ \E i \in Objects \cap Receivers, j \in Objects :
        /\ ret' = Eq(Data(i), VbValue(Data(j)))
        /\ fcall' = ObjCall("__eq__", i)
    /\ UNCHANGED <<arrays, refs, receiverVars, serviceVars>>
    /\ touched' = Changed(arrays, arrays', refs, Objects)

\* v.bin, v.uint, v.sint; bitstring cannot read an empty array as a number
AccessorObj ==
    /\ \E i \in Objects \cap Receivers, name \in {"bin", "uint", "sint"} :
        /\ ret' = IF name = "bin" THEN Ok(Bin(Data(i)))
                  ELSE IF Len(Data(i)) = 0
                       THEN Raise("InterpretError", "empty")
                  ELSE IF name = "uint" THEN Ok(BitsUint(Data(i)))
                  ELSE Ok(Sint(Data(i)))
        /\ fcall' = ObjCall(name, i)
    /\ UNCHANGED <<arrays, refs, receiverVars, serviceVars>>
    /\ touched' = Changed(arrays, arrays', refs, Objects)

\* v[key] = value
SetObj ==
    /\ \E i \in Objects \cap Receivers : \E c \in ObjSetCalls(Len(Data(i))) :
        LET r == SetItem(Data(i), c[1], c[2])
            after == SetItemEffect(Data(i), c[1], c[2])
        IN  /\ Len(after) <= MaxObjLen
            /\ arrays' = [arrays EXCEPT ![refs[i].addr] = after]
            /\ fcall' = ObjCall("__setitem__", i)
            /\ ret' = [r EXCEPT !.data = <<>>]
    /\ touched' = Changed(arrays, arrays', refs, Objects)
    /\ UNCHANGED <<refs, receiverVars, serviceVars>>

\* what v is combined with by a disabled operator: w, an integer, a string
DisabledOperands(name) ==
    IF name \in Unary THEN {NoneValue}
    ELSE {VbValue(Data(2)), IntValue(2), StrValue("", <<1>>)}

\* v < other, v + other, v & other, ~v, int(v), ...
DisabledObj ==
    /\ \E name \in DisabledOperators : \E other \in DisabledOperands(name) :
        /\ ret' = Disabled(name, Data(1), other)
        /\ fcall' = ObjCall(name, 1)
    /\ UNCHANGED <<arrays, refs, receiverVars, serviceVars>>
    /\ touched' = Changed(arrays, arrays', refs, Objects)

NextObjects ==
    \/ CopyObj \/ GetObj \/ ConcatObj \/ ReplicateObj \/ EqObj \/ AccessorObj \/ SetObj

SpecObjects == InitObjects /\ [][NextObjects]_vars

\* the disabled operators tried on v between the writes to it
NextOperators == SetObj \/ GetObj \/ DisabledObj

SpecOperators == InitObjects /\ [][NextOperators]_vars

\* the last call was a set on object c
IsSetOn(c) == fcall.name = "__setitem__" /\ fcall.self = c
\* object c was made by one of the calls in how from, among others, object v
MadeFrom(c, v, how) == refs[c].by \in how /\ v \in refs[c].of
\* the last call left the bits and length of object i as they were
Untouched(i) == refs[i].addr \notin touched

(* C15.  Copy construction yields independent storage: after               *)
(* c = VerilogBits(v), c equals v; a set applied to c leaves the bits of v *)
(* unchanged, and a set applied to v leaves the bits of c unchanged,       *)
(* whatever sets came before.                                              *)
C15_CopyIndependent ==
    /\ fcall.name = "__init__" =>
          Eq(Data(Derived), VbValue(Data(fcall.self))) = Ok(TRUE)
    /\ \A c \in Objects, v \in Objects :
          MadeFrom(c, v, {"copy"}) =>
              /\ IsSetOn(c) => Untouched(v)
              /\ IsSetOn(v) => Untouched(c)

\* r = VerilogBits(v) of v = 11; a set on r made it 01, and v is still 11
C15_Witness ==
    \E c \in Objects, v \in Objects :
        /\ MadeFrom(c, v, {"copy"}) /\ IsSetOn(c) /\ ret.kind = "ok"
        /\ refs[c].addr \in touched
        /\ Bin(Data(c)) = <<"0", "1">> /\ Bin(Data(v)) = <<"1", "1">>

(* C16.  Only a vector's own set mutates it: get (single-bit and ranged),  *)
(* concat, replicate, equality and the bin/uint/sint accessors leave the   *)
(* bits and length of every existing vector unchanged, and a set applied   *)
(* to a vector returned by get, concat or replicate (concat of a single    *)
(* argument and replicate(1) included) never changes the vector(s) it was  *)
(* derived from.                                                           *)
C16_OnlySetMutates ==
    /\ fcall.name \in {"__getitem__", "concat", "replicate", "__eq__", "bin", "uint", "sint"} =>
          touched = {}
    /\ \A r \in Objects, v \in Objects :
          (IsSetOn(r) /\ MadeFrom(r, v, {"__getitem__", "concat", "replicate"})) =>
              Untouched(v)

\* r = v.replicate(1) of v = 10; a set on r made it 00, and v is still 10
C16_Witness ==
    \E r \in Objects, v \in Objects :
        /\ IsSetOn(r) /\ MadeFrom(r, v, {"replicate"}) /\ ret.kind = "ok"
        /\ refs[r].addr \in touched
        /\ Bin(Data(r)) = <<"0", "0">> /\ Bin(Data(v)) = <<"1", "0">>

----------------------------------------------------------------------------
(* C21 as stated.  An equality comparison between a VerilogBits and a      *)
(* non-VerilogBits operand (raw integer or string) fails with TypeError,   *)
(* the error concat raises for a non-VerilogBits argument.                 *)
C21_EqRaisesTypeError ==
    (IsEq /\ fcall.other.type \in {"int", "str"}) =>
        (ret.kind = "raise" /\ ret.err = "TypeError")

(* C21.  An equality comparison between a VerilogBits and a                *)
(* non-VerilogBits operand (raw integer or string) raises nothing and is   *)
(* False, although concat given the same operand raises TypeError.         *)
C21_EqWithOtherTypeIsFalse ==
    (IsEq /\ fcall.other.type \in {"int", "str"}) =>
        /\ ret.kind = "ok" /\ ret.data = FALSE
        /\ Concat(<<VbValue(fcall.self), fcall.other>>).kind = "raise"
        /\ Concat(<<VbValue(fcall.self), fcall.other>>).err = "TypeError"

\* VerilogBits('0b101') == '0b101' is False
C21_Witness ==
    /\ IsEq /\ fcall.self = <<1, 0, 1>>
    /\ fcall.other = StrValue("0b", <<1, 0, 1>>)
    /\ ret.kind = "ok" /\ ret.data = FALSE

(* C22.  Disabled operators always fail: for every vector and every other  *)
(* operand (VerilogBits, integer or string), the ordering comparisons      *)
(* <, <=, >, >=, the arithmetic operators +, -, *, /, the bitwise          *)
(* operators &, |, ^, ~ and int() each raise TypeError whatever the        *)
(* operand values are, return no result, and leave the operands unchanged. *)
C22_DisabledOperatorsRaise ==
    fcall.name \in DisabledOperators =>
        /\ ret.kind = "raise" /\ ret.err = "TypeError" /\ ret.data = <<>>
        /\ touched = {}

\* v + w with v = 10 and w = 1 raises TypeError; v is still 10 and w 1
C22_Witness ==
    /\ fcall = ObjCall("+", 1)
    /\ ret.kind = "raise" /\ ret.err = "TypeError"
    /\ Bin(Data(1)) = <<"1", "0">> /\ Bin(Data(2)) = <<"1">>

----------------------------------------------------------------------------
\* ceil(n / 4)
HexDigitCount(n) == (n + 3) \div 4

(* C23.  Memory-file serialization width: for every vector of length       *)
(* L >= 1 written by write_mem_file, the hex token has exactly ceil(L/4)   *)
(* hex digits, zero-padded, without a 0x prefix, and denotes the vector's  *)
(* uint; the binary token is exactly the L-character bit string.  This     *)
(* holds for every L, including L not a multiple of 4.                     *)
C23_TokenWidth ==
    (IsWrite /\ fcall.data # <<>>
       /\ \A i \in 1..Len(fcall.data) : Len(fcall.data[i]) >= 1) =>
        /\ ret.kind = "ok"
        /\ Len(ret.data) = Len(fcall.data)
        /\ \A i \in 1..Len(fcall.data) :
              LET vb == fcall.data[i]
                  token == ret.data[i].token
              IN  IF fcall.is_hex
                  THEN /\ Len(token) = HexDigitCount(Len(vb))
                       /\ \A k \in 1..Len(token) : token[k] \in 0..15
                       /\ DigitsValue(token, 16) = Uint(vb)
                  ELSE /\ Len(token) = Len(vb)
                       /\ \A k \in 1..Len(vb) : token[k] = (IF vb[k] = 1 THEN "1" ELSE "0")

----------------------------------------------------------------------------
(* C24.  Slicing inverts concatenation: for all vectors a and b with       *)
(* len(a), len(b) >= 1 and c = concat(b, a), c[len(a)-1 : 0] equals a and  *)
(* c[len(a)+len(b)-1 : len(a)] equals b.                                   *)
C24_SliceInvertsConcat ==
    IsUnpack =>
        LET b == fcall.args[1].data
            a == fcall.args[2].data
        IN  (Len(a) >= 1 /\ Len(b) >= 1) =>
              /\ fcall.key = Range(Len(a) - 1, 0) =>
                    (ret.kind = "ok" /\ Eq(ret.data, VbValue(a)) = Ok(TRUE))
              /\ fcall.key = Range(Len(a) + Len(b) - 1, Len(a)) =>
                    (ret.kind = "ok" /\ Eq(ret.data, VbValue(b)) = Ok(TRUE))

\* c = concat(10, 01) is 1001, and c[3:2] is 10
C24_Witness ==
    /\ IsUnpack
    /\ fcall.args = <<VbValue(<<1, 0>>), VbValue(<<0, 1>>)>>
    /\ fcall.key = Range(3, 2)
    /\ ret.kind = "ok" /\ Bin(ret.data) = <<"1", "0">>

----------------------------------------------------------------------------
(* The task runner.  A handler is what the caller put in pre_sim_handler   *)
(* or post_sim_handler: None, or a function of the task that may assign    *)
(* task.passed and then returns or raises.  A run is one call of           *)
(* run_full() or run_sim_only(); its trace lists the stages it entered,    *)
(* each with whether its handler was invoked and the exception it ended    *)
(* with ("" for none).                                                     *)

\* most calls of run_full() and run_sim_only() on one task
MaxRuns == 2

NoHandler == [present |-> FALSE, sets |-> "keep", raises |-> FALSE]
Handlers ==
    {NoHandler}
    \cup {[present |-> TRUE, sets |-> a, raises |-> r] :
            a \in {"keep", "true", "false"}, r \in BOOLEAN}

\* task.passed after the handler ran
HandlerSets(h, passed) ==
    IF h.sets = "true" THEN TRUE ELSE IF h.sets = "false" THEN FALSE ELSE passed

\* how a stage ended: the exception, task.passed, and whether the handler
\* was invoked
StageEnd(exc, passed, invoked) == [exc |-> exc, passed |-> passed, invoked |-> invoked]

\* _prepare_and_validate(): the ValueError of a task_name or sim_config
\* that is not set as required
PrepareAndValidate(t) == IF t.valid THEN "" ELSE "ValueError"

\* SimulationTask.pre_sim()
PreSim(t) ==
    IF PrepareAndValidate(t) # "" THEN StageEnd(PrepareAndValidate(t), t.passed, FALSE)
    ELSE IF ~t.pre_sim_handler.present THEN StageEnd("NotImplementedError", t.passed, FALSE)
    ELSE StageEnd(IF t.pre_sim_handler.raises THEN "HandlerError" ELSE "",
                  HandlerSets(t.pre_sim_handler, t.passed), TRUE)

\* SimulationTask.run_sim(): the runner is loaded, its parameters checked,
\* and the simulator run
RunSim(t) ==
    IF PrepareAndValidate(t) # "" THEN StageEnd(PrepareAndValidate(t), t.passed, FALSE)
    ELSE IF t.simulator = "fails" THEN StageEnd("SimulatorError", t.passed, FALSE)
    ELSE StageEnd("", t.passed, FALSE)

\* post_sim leaving task.passed as it finds it
PostSimResetSkipped(passed) == passed

\* self.passed = False, before the post-sim handler checks the results
PostSimReset(passed) == FALSE

\* SimulationTask.post_sim()
PostSim(t) ==
    IF PrepareAndValidate(t) # "" THEN StageEnd(PrepareAndValidate(t), t.passed, FALSE)
    ELSE IF ~t.post_sim_handler.present THEN StageEnd("NotImplementedError", t.passed, FALSE)
    ELSE StageEnd(IF t.post_sim_handler.raises THEN "HandlerError" ELSE "",
                  HandlerSets(t.post_sim_handler, PostSimReset(t.passed)), TRUE)

\* the simulation-only workflow running the pre-sim stage as the full one
StagesWithPreSim(mode) == <<"pre_sim", "run_sim", "post_sim">>

\* the stages in the try block of run_full() and of run_sim_only()
Stages(mode) ==
    IF mode = "run_full" THEN <<"pre_sim", "run_sim", "post_sim">>
    ELSE <<"run_sim", "post_sim">>

\* Verilogger.error(message) called with the keyword arguments kwargs: the
\* method takes message only, so any keyword argument is a TypeError raised
\* before the body runs
LoggerError(lg, kwargs) ==
    IF kwargs # {}
    THEN [kind |-> "raise", err |-> "TypeError", logger |-> lg]
    ELSE [kind |-> "ok", err |-> "",
          logger |-> [lg EXCEPT !.error_count = lg.error_count + 1]]

\* Verilogger.__init__()
LoggerNew ==
    [error_count |-> 0, warning_count |-> 0, output_files |-> <<>>,
     added_files |-> {}, write_handlers |-> <<"_console_write">>,
     lock |-> [owner |-> 0, depth |-> 0]]

\* SimulationTask.__init__(), and the attributes the caller then sets
InitTask ==
    /\ \E valid \in BOOLEAN, sim \in {"ok", "fails"}, h1 \in Handlers, h2 \in Handlers :
        task = [passed |-> FALSE, valid |-> valid, simulator |-> sim,
                pre_sim_handler |-> h1, post_sim_handler |-> h2,
                pc |-> "idle", mode |-> "", at |-> 0, trace |-> <<>>,
                exc |-> "", runs |-> 0]
    /\ logger = LoggerNew
    /\ threads = <<>>
    /\ fcall = NoCall /\ ret = Ok(<<>>)
    /\ bits = <<>> /\ pre = <<>> /\ res = Ok(<<>>)
    /\ op = [name |-> "none", key |-> OtherKey, value |-> NoneValue]
    /\ NoObjects

\* the caller assigns task.passed = True between two runs
SetPassed ==
    /\ task.pc = "idle" /\ ~task.passed
    /\ task' = [task EXCEPT !.passed = TRUE]
    /\ UNCHANGED <<logger, threads, fcall, ret, receiverVars, objectVars>>

\* run_full() and run_sim_only() up to the try block: passed is reset
Enter(mode) ==
    /\ task.pc = "idle" /\ task.runs < MaxRuns
    /\ task' = [task EXCEPT !.passed = FALSE, !.pc = "try", !.mode = mode, !.at = 1,
                            !.trace = <<>>, !.exc = "", !.runs = task.runs + 1]
    /\ fcall' = [name |-> mode, passed |-> task.passed]
    /\ ret' = Pending
    /\ UNCHANGED <<logger, threads, receiverVars, objectVars>>

RunFullCall == Enter("run_full")
RunSimOnlyCall == Enter("run_sim_only")

\* the task after the stage of this name ended with e
AfterStage(name, e) ==
    [task EXCEPT !.passed = e.passed,
                 !.trace = Append(task.trace, [stage |-> name, invoked |-> e.invoked, exc |-> e.exc]),
                 !.exc = e.exc,
                 !.pc = IF e.exc # "" THEN "except"
                        ELSE IF task.at = Len(Stages(task.mode)) THEN "report" ELSE "try",
                 !.at = task.at + 1]

\* the next statement of the try block is the stage of this name
AtStage(name) == task.pc = "try" /\ Stages(task.mode)[task.at] = name

PreSimStep ==
    /\ AtStage("pre_sim")
    /\ task' = AfterStage("pre_sim", PreSim(task))
    /\ UNCHANGED <<logger, threads, fcall, ret, receiverVars, objectVars>>

RunSimStep ==
    /\ AtStage("run_sim")
    /\ task' = AfterStage("run_sim", RunSim(task))
    /\ UNCHANGED <<logger, threads, fcall, ret, receiverVars, objectVars>>

PostSimStep ==
    /\ AtStage("post_sim")
    /\ task' = AfterStage("post_sim", PostSim(task))
    /\ UNCHANGED <<logger, threads, fcall, ret, receiverVars, objectVars>>

\* except Exception as e: verilogger.error(f"...", exc_info=True), then
\* self.passed = False
ExceptStep ==
    /\ task.pc = "except"
    /\ LET r == LoggerError(logger, {"exc_info"})
       IN  /\ logger' = r.logger
           /\ IF r.kind = "raise"
              THEN /\ task' = [task EXCEPT !.pc = "idle", !.exc = r.err]
                   /\ ret' = Raise(r.err, "error() got an unexpected keyword argument 'exc_info'")
              ELSE /\ task' = [task EXCEPT !.pc = "report", !.passed = FALSE]
                   /\ UNCHANGED ret
    /\ UNCHANGED <<threads, fcall, receiverVars, objectVars>>

\* if self.passed: ... else: verilogger.error("... failed ..."); return
\* self.passed
ReportStep ==
    /\ task.pc = "report"
    /\ logger' = IF task.passed THEN logger ELSE LoggerError(logger, {}).logger
    /\ task' = [task EXCEPT !.pc = "idle"]
    /\ ret' = Ok(task.passed)
    /\ UNCHANGED <<threads, fcall, receiverVars, objectVars>>

NextTask ==
    \/ SetPassed \/ RunFullCall \/ RunSimOnlyCall
    \/ PreSimStep \/ RunSimStep \/ PostSimStep \/ ExceptStep \/ ReportStep

SpecTask == InitTask /\ [][NextTask]_vars

\* a call of run_full() or run_sim_only() has ended
RunEnded == task.pc = "idle" /\ task.runs > 0
\* a stage of the call raised
StageRaised == \E k \in 1..Len(task.trace) : task.trace[k].exc # ""

(* C25.  Workflow failure containment: if any stage of run_full() or       *)
(* run_sim_only() raises an exception (validation error, missing handler,  *)
(* handler exception, simulator failure), the exception does not propagate *)
(* to the caller; the call returns False and self.passed is False          *)
(* afterwards, even if a handler had set passed to True before raising.    *)
C25_FailureContained ==
    (RunEnded /\ StageRaised) => (ret = Ok(FALSE) /\ task.passed = FALSE)

(* C26.  Stage ordering: within one run_full() call the stages execute     *)
(* strictly in the order pre_sim, run_sim, post_sim, each at most once,    *)
(* and a stage starts only if every earlier stage of that call completed   *)
(* without exception; within one run_sim_only() call the order is run_sim  *)
(* then post_sim and pre_sim_handler is never invoked.                     *)
C26_StageOrder ==
    task.runs > 0 =>
        LET order == IF fcall.name = "run_full"
                     THEN <<"pre_sim", "run_sim", "post_sim">>
                     ELSE <<"run_sim", "post_sim">>
            n == Len(task.trace)
        IN  /\ n <= Len(order)
            /\ \A k \in 1..n : task.trace[k].stage = order[k]
            /\ \A k \in 1..(n - 1) : task.trace[k].exc = ""
            /\ fcall.name = "run_sim_only" =>
                  \A k \in 1..n : ~(task.trace[k].stage = "pre_sim" /\ task.trace[k].invoked)

\* a run_sim_only() that ran run_sim and post_sim and returned True, the
\* task having a pre_sim_handler
C26_Witness ==
    /\ RunEnded /\ fcall.name = "run_sim_only" /\ ret = Ok(TRUE)
    /\ task.pre_sim_handler.present
    /\ Len(task.trace) = 2
    /\ task.trace[1].stage = "run_sim" /\ task.trace[2].stage = "post_sim"

(* C30.  A True result always comes from the current run's post-sim check: *)
(* run_full() or run_sim_only() returns True only if, within that same     *)
(* call, post_sim_handler was invoked, returned without exception and left *)
(* passed set to True; a passed == True left by an earlier run, set by the *)
(* caller beforehand, or set by pre_sim_handler never makes the call       *)
(* return True.                                                            *)
C30_TrueFromPostSim ==
    (RunEnded /\ ret = Ok(TRUE)) =>
        LET n == Len(task.trace)
        IN  /\ n >= 1
            /\ task.trace[n].stage = "post_sim"
            /\ task.trace[n].invoked /\ task.trace[n].exc = ""
            /\ task.post_sim_handler.sets = "true"

\* passed was True when run_full() was called and pre_sim_handler set it to
\* True again; post_sim_handler returned without setting it: False
C30_Witness ==
    /\ RunEnded /\ fcall = [name |-> "run_full", passed |-> TRUE]
    /\ task.pre_sim_handler.present /\ task.pre_sim_handler.sets = "true"
    /\ task.post_sim_handler.present /\ task.post_sim_handler.sets = "keep"
    /\ Len(task.trace) = 3 /\ task.trace[3].invoked /\ task.trace[3].exc = ""
    /\ ret = Ok(FALSE)

----------------------------------------------------------------------------
(* The logger under threads.  Each thread calls warning(), error(),        *)
(* critical() and add() one after the other; a call is a sequence of       *)
(* steps, and the steps of different threads interleave.  _write_lock is a *)
(* threading.RLock: owner is the thread holding it (0 for none) and depth  *)
(* the number of times the owner has acquired it.  self._x_count += 1 is a *)
(* load of the attribute followed by a store of the sum.                   *)

\* threads calling the logger
NThreads == 2
\* most calls the threads make together
MaxCalls == 3

Threads == 1..NThreads
CountingCalls == {"warning", "error", "critical"}
Paths == {"a.log", "out/b.log"}

\* os.path.dirname(file_path)
Directory(path) == IF path = "out/b.log" THEN "out" ELSE ""

\* _output_files, _added_files and _write_handlers
OutputState(lg) ==
    [output_files |-> lg.output_files, added_files |-> lg.added_files,
     write_handlers |-> lg.write_handlers]

\* a lock any thread may take while another holds it
CanAcquireAlways(lk, t) == TRUE

\* with self._write_lock: a thread enters when no other thread holds it
CanAcquire(lk, t) == lk.owner = 0 \/ lk.owner = t

Acquired(lk, t) == [owner |-> t, depth |-> lk.depth + 1]
Released(lk) ==
    IF lk.depth <= 1 THEN [owner |-> 0, depth |-> 0] ELSE [lk EXCEPT !.depth = @ - 1]

\* add() taking every path as new
AlreadyAddedNever(lg, path) == FALSE

\* if file_path in self._added_files
AlreadyAdded(lg, path) == path \in lg.added_files

\* a failed add() that keeps the path as added
AfterOSErrorTracked(lg, path) == [lg EXCEPT !.added_files = @ \cup {path}]

\* except OSError: the logger when the handler calls self.error()
AfterOSError(lg, path) == lg

\* the file is stored, its path tracked, and _file_write added with the
\* first file
Registered(lg, path) ==
    LET files == Append(lg.output_files, [path |-> path])
    IN  [lg EXCEPT !.output_files = files,
                   !.added_files = @ \cup {path},
                   !.write_handlers = IF Len(files) = 1 THEN Append(@, "_file_write") ELSE @]

\* a thread before its first call
ThreadNew ==
    [pc |-> "idle", call |-> "", path |-> "", back |-> "idle", reg |-> 0,
     before |-> OutputState(LoggerNew), outcome |-> "",
     errors |-> 0, warnings |-> 0, started |-> 0]

\* the thread entering warning(), error() or critical(), to continue at
\* back when the call returns
Counting(th, name, back) ==
    [th EXCEPT !.pc = "acquire", !.call = name, !.back = back,
               !.errors = @ + (IF name = "warning" THEN 0 ELSE 1),
               !.warnings = @ + (IF name = "warning" THEN 1 ELSE 0)]

RECURSIVE Total(_, _)
\* the sum of f[1] .. f[n]
Total(f, n) == IF n = 0 THEN 0 ELSE f[n] + Total(f, n - 1)

Started == Total([t \in Threads |-> threads[t].started], NThreads)

InitLogger ==
    /\ logger = LoggerNew
    /\ threads = [t \in Threads |-> ThreadNew]
    /\ task = <<>>
    /\ fcall = NoCall /\ ret = Ok(<<>>)
    /\ bits = <<>> /\ pre = <<>> /\ res = Ok(<<>>)
    /\ op = [name |-> "none", key |-> OtherKey, value |-> NoneValue]
    /\ NoObjects

\* what a step of the logger leaves alone
LoggerFrame == UNCHANGED <<task, fcall, ret, receiverVars, objectVars>>

\* a thread calls warning(), error() or critical()
CountCall(t) ==
    /\ threads[t].pc = "idle" /\ Started < MaxCalls
    /\ \E name \in CountingCalls :
        threads' = [threads EXCEPT ![t] =
                      [Counting(@, name, "idle") EXCEPT !.started = @ + 1, !.outcome = ""]]
    /\ UNCHANGED logger /\ LoggerFrame

\* with self._write_lock, in warning(), error() and critical()
AcquireStep(t) ==
    /\ threads[t].pc = "acquire" /\ CanAcquire(logger.lock, t)
    /\ logger' = [logger EXCEPT !.lock = Acquired(@, t)]
    /\ threads' = [threads EXCEPT ![t].pc = "load"]
    /\ LoggerFrame

\* self._x_count += 1: the attribute is read
LoadStep(t) ==
    /\ threads[t].pc = "load"
    /\ threads' = [threads EXCEPT ![t].pc = "store",
                     ![t].reg = IF threads[t].call = "warning"
                                THEN logger.warning_count ELSE logger.error_count]
    /\ UNCHANGED logger /\ LoggerFrame

\* self._x_count += 1: the sum is assigned
StoreStep(t) ==
    /\ threads[t].pc = "store"
    /\ logger' = IF threads[t].call = "warning"
                 THEN [logger EXCEPT !.warning_count = threads[t].reg + 1]
                 ELSE [logger EXCEPT !.error_count = threads[t].reg + 1]
    /\ threads' = [threads EXCEPT ![t].pc = "release", ![t].reg = 0]
    /\ LoggerFrame

\* the end of the with block
ReleaseStep(t) ==
    /\ threads[t].pc = "release"
    /\ logger' = [logger EXCEPT !.lock = Released(@)]
    /\ threads' = [threads EXCEPT ![t].pc = "emit"]
    /\ LoggerFrame

\* _loguru_logger.warning(message) and the like, outside the lock; the call
\* returns
EmitStep(t) ==
    /\ threads[t].pc = "emit"
    /\ threads' = [threads EXCEPT ![t].pc = threads[t].back, ![t].back = "idle"]
    /\ UNCHANGED logger /\ LoggerFrame

\* a thread calls add(file_path)
AddCall(t) ==
    /\ threads[t].pc = "idle" /\ Started < MaxCalls
    /\ \E path \in Paths :
        threads' = [threads EXCEPT ![t] =
                      [@ EXCEPT !.pc = "add_acquire", !.call = "add", !.path = path,
                                !.started = @ + 1, !.outcome = ""]]
    /\ UNCHANGED logger /\ LoggerFrame

\* with self._write_lock, in add()
AddAcquire(t) ==
    /\ threads[t].pc = "add_acquire" /\ CanAcquire(logger.lock, t)
    /\ logger' = [logger EXCEPT !.lock = Acquired(@, t)]
    /\ threads' = [threads EXCEPT ![t].pc = "add_check", ![t].before = OutputState(logger)]
    /\ LoggerFrame

\* the idempotency check; a path already added is reported by
\* self.warning()
AddCheck(t) ==
    /\ threads[t].pc = "add_check"
    /\ threads' = [threads EXCEPT ![t] =
                      IF AlreadyAdded(logger, threads[t].path)
                      THEN Counting([@ EXCEPT !.outcome = "duplicate"], "warning", "add_release")
                      ELSE [@ EXCEPT !.pc = "add_makedirs"]]
    /\ UNCHANGED logger /\ LoggerFrame

\* the directory is created when the path names one that is missing; an
\* OSError is reported by self.error()
AddMakedirs(t) ==
    /\ threads[t].pc = "add_makedirs"
    /\ \E r \in {"ok", "OSError"} :
        IF Directory(threads[t].path) = "" \/ r = "ok"
        THEN /\ threads' = [threads EXCEPT ![t].pc = "add_open"]
             /\ UNCHANGED logger
        ELSE /\ logger' = AfterOSError(logger, threads[t].path)
             /\ threads' = [threads EXCEPT ![t] =
                              Counting([@ EXCEPT !.outcome = "failed"], "error", "add_release")]
    /\ LoggerFrame

\* the file is opened and stored; an OSError is reported by self.error()
AddOpen(t) ==
    /\ threads[t].pc = "add_open"
    /\ \E r \in {"ok", "OSError"} :
        IF r = "ok"
        THEN /\ logger' = Registered(logger, threads[t].path)
             /\ threads' = [threads EXCEPT ![t].pc = "add_release", ![t].outcome = "added"]
        ELSE /\ logger' = AfterOSError(logger, threads[t].path)
             /\ threads' = [threads EXCEPT ![t] =
                              Counting([@ EXCEPT !.outcome = "failed"], "error", "add_release")]
    /\ LoggerFrame

\* add() leaves the with block and returns
AddRelease(t) ==
    /\ threads[t].pc = "add_release"
    /\ logger' = [logger EXCEPT !.lock = Released(@)]
    /\ threads' = [threads EXCEPT ![t].pc = "idle", ![t].before = ThreadNew.before]
    /\ LoggerFrame

NextLogger ==
    \E t \in Threads :
        \/ CountCall(t) \/ AcquireStep(t) \/ LoadStep(t) \/ StoreStep(t)
        \/ ReleaseStep(t) \/ EmitStep(t)
        \/ AddCall(t) \/ AddAcquire(t) \/ AddCheck(t) \/ AddMakedirs(t)
        \/ AddOpen(t) \/ AddRelease(t)

SpecLogger == InitLogger /\ [][NextLogger]_vars

\* every call has returned
AllReturned == \A t \in Threads : threads[t].pc = "idle"
\* the paths of the stored files
StoredPaths == {logger.output_files[i].path : i \in 1..Len(logger.output_files)}

(* C27.  Counter updates are not lost under concurrency: for any number of *)
(* threads calling error(), critical() and warning() in any interleaving,  *)
(* once all calls have returned get_error_count() has increased by exactly *)
(* the number of error() plus critical() calls and get_warning_count() by  *)
(* exactly the number of warning() calls.                                  *)
C27_CountersExact ==
    AllReturned =>
        /\ logger.error_count = Total([t \in Threads |-> threads[t].errors], NThreads)
        /\ logger.warning_count = Total([t \in Threads |-> threads[t].warnings], NThreads)

\* two threads have each called error() or critical(), three calls in all
C27_Witness ==
    /\ AllReturned
    /\ threads[1].errors >= 1 /\ threads[2].errors >= 1
    /\ threads[1].call # "add" /\ threads[2].call # "add"
    /\ logger.error_count = 3

(* C28.  add() is idempotent per path: after any sequence of add() calls,  *)
(* from one thread or interleaved across several, _output_files holds at   *)
(* most one entry for each file path, _added_files is exactly the set of   *)
(* paths in _output_files, and a repeated add() of an already-added path   *)
(* leaves both unchanged.                                                  *)
C28_AddIdempotent ==
    /\ \A i, j \in 1..Len(logger.output_files) :
          logger.output_files[i].path = logger.output_files[j].path => i = j
    /\ logger.added_files = StoredPaths
    /\ \A t \in Threads :
          (threads[t].outcome = "duplicate" /\ threads[t].pc = "add_release") =>
              /\ logger.output_files = threads[t].before.output_files
              /\ logger.added_files = threads[t].before.added_files

\* thread 1 added a path and thread 2, adding the same path, is about to
\* return from the repeated add()
C28_Witness ==
    /\ threads[1].outcome = "added" /\ threads[1].pc = "idle"
    /\ threads[2].outcome = "duplicate" /\ threads[2].pc = "add_release"
    /\ threads[1].path = threads[2].path
    /\ Len(logger.output_files) = 1

(* C29.  A failed add() changes no output state: when creating the         *)
(* directory or opening the file fails, add() returns without raising, and *)
(* _output_files, _added_files and _write_handlers are exactly what they   *)
(* were before the call.                                                   *)
C29_FailedAddChangesNothing ==
    \A t \in Threads :
        threads[t].outcome = "failed" =>
            /\ threads[t].pc \in {"acquire", "load", "store", "release", "emit",
                                  "add_release", "idle"}
            /\ threads[t].pc # "idle" => OutputState(logger) = threads[t].before

\* a file is stored, and a thread is about to return from an add() of
\* another path that failed
C29_Witness ==
    \E t \in Threads :
        /\ threads[t].outcome = "failed" /\ threads[t].pc = "add_release"
        /\ Len(logger.output_files) = 1
        /\ threads[t].path \notin logger.added_files
        /\ logger.error_count >= 1

====
